---------------------------- MODULE Spec2Model ----------------------------
(***************************************************************************)
(* Model of northstar/pipeline/TagAngleCalculator.py:                      *)
(* CameraMatrixTagAngleCalculator.calc_tag_angles, stepped statement by    *)
(* statement, run by a set of workers against one shared ConfigStore.      *)
(*                                                                         *)
(* Numbers.  Pixel coordinates, normalised coordinates and distortion      *)
(* coefficients are fixed-point integers, Scale units per 1.0 (so 0.1 px   *)
(* is 100).  Camera-matrix entries are plain integers.  The ray            *)
(* inv(K).(u, v, 1) is kept as exact fractions <<num, den>> in lowest      *)
(* terms, and math.atan is the term [atan |-> fraction]; atan(0) = 0.0 is  *)
(* therefore [atan |-> <<0, 1>>].  Pose translations are integer triples   *)
(* in units of 0.1 m, fit errors integers in units of 0.01.                *)
(***************************************************************************)
EXTENDS Integers, Sequences, FiniteSets, TLC

VARIABLES
    config_store,          \* the shared ConfigStore.local_config (a calibration)
    solver,                \* which deterministic pose solver is installed
    pc,                    \* per worker: position in calc_tag_angles
    image_observation,     \* per worker: the argument of the running call
    corners_undistorted,   \* per worker: local of line 26
    corners,               \* per array: the np.zeros((4, 2)) array of line 29
    index,                 \* per worker: loop counter of line 30 (0-based)
    pose_observation,      \* per worker: local of line 36
    distance,              \* per worker: local of lines 37-41
    result,                \* per worker: returned value / raised exception
    used                   \* per worker: calibrations read by the running call

vars == <<config_store, solver, pc, image_observation, corners_undistorted,
          corners, index, pose_observation, distance, result, used>>

---------------------------------------------------------------------------
(* Bounds and representation                                               *)

NumWorkers == 2
MaxCorners == 5

Scale == 1000
UndistortIters == 5
NumRows == 4

Workers == 1..NumWorkers

Abs(n) == IF n < 0 THEN 0 - n ELSE n

RECURSIVE GCD(_, _)
GCD(a, b) == IF b = 0 THEN a ELSE GCD(b, a % b)

\* A float that is the quotient n / d, in lowest terms with d > 0.
\* d = 0 gives the non-finite value.
NonFinite == <<0, 0>>
Rat(n, d) ==
    IF d = 0 THEN NonFinite
    ELSE LET g == GCD(Abs(n), Abs(d))
             s == IF d < 0 THEN 0 - 1 ELSE 1
         IN  <<(s * n) \div g, (s * d) \div g>>

\* Fixed-point product of two Scale-unit numbers.
FMul(a, b) == (a * b) \div Scale

\* math.atan
Atan(q) == [atan |-> q]

---------------------------------------------------------------------------
(* Inputs: calibrations (ConfigStore.local_config) and image observations  *)

Identity3 == << <<1, 0, 0>>, <<0, 1, 0>>, <<0, 0, 1>> >>
ZeroDistortion == <<0, 0, 0, 0, 0>>

\* camera_matrix (integer entries) and distortion_coefficients
\* (k1, k2, p1, p2, k3 in Scale units).  The last two matrices are singular:
\* one has a zero focal length, one has linearly dependent rows.
Calibrations ==
    << [camera_matrix |-> Identity3, distortion_coefficients |-> ZeroDistortion],
       [camera_matrix |-> << <<2, 0, 1>>, <<0, 3, 1>>, <<0, 0, 1>> >>,
        distortion_coefficients |-> <<0 - 200, 50, 20, 0 - 10, 0>>],
       [camera_matrix |-> << <<0, 0, 1>>, <<0, 2, 1>>, <<0, 0, 1>> >>,
        distortion_coefficients |-> ZeroDistortion],
       [camera_matrix |-> << <<1, 2, 0>>, <<2, 4, 0>>, <<0, 0, 1>> >>,
        distortion_coefficients |-> ZeroDistortion] >>

CalibrationSet == {Calibrations[i] : i \in 1..Len(Calibrations)}

\* The square of the example scenario and an irregular quadrilateral.
ExampleCorners ==
    << <<0 - 100, 0 - 100>>, <<100, 0 - 100>>, <<100, 100>>, <<0 - 100, 100>> >>
QuadCorners ==
    << <<0, 0>>, <<300, 0>>, <<400, 200>>, <<0 - 100, 300>> >>

\* The first n detected corners of a shape; a detection with more corners
\* than the shape has goes round it again, one unit further out each lap.
CornerList(shape, n) ==
    [i \in 1..n |->
        LET c   == shape[((i - 1) % Len(shape)) + 1]
            lap == (i - 1) \div Len(shape)
        IN  <<c[1] + lap, c[2] + lap>>]

NoTagId == "None"
TagIds == {NoTagId, "1", "2"}

Observations ==
    {[tag_id |-> t, corners |-> CornerList(s, n)] :
        t \in TagIds, s \in {ExampleCorners, QuadCorners}, n \in 1..MaxCorners}

---------------------------------------------------------------------------
(* cv2.undistortPoints(corners, K, D, None, K), one point at a time        *)

NanPoint == [nan |-> TRUE, u |-> 0, v |-> 0]

\* One pass of the distortion-compensation loop on normalised (x, y),
\* started from (x0, y0).
UndistortStep(xy, x0, y0, D) ==
    IF xy.nan THEN xy
    ELSE
    LET x   == xy.u
        y   == xy.v
        r2  == FMul(x, x) + FMul(y, y)
        den == Scale + FMul(FMul(FMul(D[5], r2) + D[2], r2) + D[1], r2)
        dX  == 2 * FMul(D[3], FMul(x, y)) + FMul(D[4], r2 + 2 * FMul(x, x))
        dY  == FMul(D[3], r2 + 2 * FMul(y, y)) + 2 * FMul(D[4], FMul(x, y))
    IN  IF den = 0 THEN NanPoint
        ELSE [nan |-> FALSE,
              u |-> ((x0 - dX) * Scale) \div den,
              v |-> ((y0 - dY) * Scale) \div den]

RECURSIVE UndistortIterate(_, _, _, _, _)
UndistortIterate(xy, x0, y0, D, n) ==
    IF n = 0 THEN xy
    ELSE UndistortIterate(UndistortStep(xy, x0, y0, D), x0, y0, D, n - 1)

\* Normalise with fx, fy, cx, cy, compensate the distortion, re-project
\* with P = K.
UndistortPoint(p, K, D) ==
    IF K[1][1] = 0 \/ K[2][2] = 0 THEN NanPoint
    ELSE
    LET x0 == (p[1] - K[1][3] * Scale) \div K[1][1]
        y0 == (p[2] - K[2][3] * Scale) \div K[2][2]
        xy == UndistortIterate([nan |-> FALSE, u |-> x0, v |-> y0],
                               x0, y0, D, UndistortIters)
        X  == K[1][1] * xy.u + K[1][2] * xy.v + K[1][3] * Scale
        Y  == K[2][1] * xy.u + K[2][2] * xy.v + K[2][3] * Scale
        W  == K[3][1] * xy.u + K[3][2] * xy.v + K[3][3] * Scale
    IN  IF xy.nan \/ W = 0 THEN NanPoint
        ELSE [nan |-> FALSE, u |-> (X * Scale) \div W, v |-> (Y * Scale) \div W]

UndistortPoints(cs, cal) ==
    [i \in 1..Len(cs) |->
        UndistortPoint(cs[i], cal.camera_matrix, cal.distortion_coefficients)]

---------------------------------------------------------------------------
(* np.linalg.inv(K).dot([u, v, 1])                                         *)

Det(K) ==
      K[1][1] * (K[2][2] * K[3][3] - K[2][3] * K[3][2])
    - K[1][2] * (K[2][1] * K[3][3] - K[2][3] * K[3][1])
    + K[1][3] * (K[2][1] * K[3][2] - K[2][2] * K[3][1])

\* Adjugate of K: inv(K) = Adj(K) / Det(K).
Adj(K) ==
    << << K[2][2] * K[3][3] - K[2][3] * K[3][2],
          K[1][3] * K[3][2] - K[1][2] * K[3][3],
          K[1][2] * K[2][3] - K[1][3] * K[2][2] >>,
       << K[2][3] * K[3][1] - K[2][1] * K[3][3],
          K[1][1] * K[3][3] - K[1][3] * K[3][1],
          K[1][3] * K[2][1] - K[1][1] * K[2][3] >>,
       << K[2][1] * K[3][2] - K[2][2] * K[3][1],
          K[1][2] * K[3][1] - K[1][1] * K[3][2],
          K[1][1] * K[2][2] - K[1][2] * K[2][1] >> >>

\* np.linalg.inv raises LinAlgError("Singular matrix") on these.
InvRaises(K) == Det(K) = 0

\* The homogeneous vector np.array([corner[0][0], corner[0][1], 1]) in Scale
\* units.
Homogeneous(pt) == <<pt.u, pt.v, Scale>>

\* vec of line 31: three exact fractions.
InvDot(K, pt) ==
    LET A == Adj(K)
        h == Homogeneous(pt)
        d == Det(K) * Scale
    IN  [r \in 1..3 |->
            IF pt.nan THEN NonFinite
            ELSE Rat(A[r][1] * h[1] + A[r][2] * h[2] + A[r][3] * h[3], d)]

\* Lines 32-33: the (azimuth, elevation) row of one corner.
AngleRow(vec) == <<Atan(vec[1]), Atan(vec[2])>>

\* np.zeros((4, 2))
ZeroAngle == Atan(Rat(0, 1))
ZeroCorners == [r \in 1..NumRows |-> <<ZeroAngle, ZeroAngle>>]

---------------------------------------------------------------------------
(* SquareTargetPoseEstimator.solve_fiducial_pose: the external pose solver *)

\* What a solve can give: two hypotheses (translation vectors, fit errors),
\* or a failure to converge.
SolverOutcomes ==
    << [ok |-> TRUE, pose_0 |-> <<12, 16, 0>>, error_0 |-> 1,
                     pose_1 |-> <<0, 15, 20>>, error_1 |-> 2],
       [ok |-> TRUE, pose_0 |-> <<12, 16, 0>>, error_0 |-> 2,
                     pose_1 |-> <<0, 15, 20>>, error_1 |-> 1],
       [ok |-> TRUE, pose_0 |-> <<12, 16, 0>>, error_0 |-> 1,
                     pose_1 |-> <<0, 15, 20>>, error_1 |-> 1],
       [ok |-> TRUE, pose_0 |-> <<7, 24, 0>>,  error_0 |-> 2,
                     pose_1 |-> <<0, 0, 20>>,  error_1 |-> 2],
       [ok |-> TRUE, pose_0 |-> <<20, 0, 0>>,  error_0 |-> 0,
                     pose_1 |-> <<0, 0, 20>>,  error_1 |-> 3],
       [ok |-> FALSE] >>

NumSolvers == Len(SolverOutcomes)

CalibrationKey(cal) == CHOOSE i \in 1..Len(Calibrations) : Calibrations[i] = cal

ObservationKey(o) ==
    Len(o.corners) + Abs(o.corners[1][1]) \div 100
    + (IF o.tag_id = "1" THEN 1 ELSE IF o.tag_id = "2" THEN 2 ELSE 0)

\* The solver is a function of its two arguments alone; `solver` selects
\* which such function it is.
SolveFiducialPose(o, cal) ==
    SolverOutcomes[((ObservationKey(o) + CalibrationKey(cal) + solver)
                     % NumSolvers) + 1]

\* pose_observation before line 36 has bound it.
NoPose == [ok |-> FALSE, bound |-> FALSE]
\* What the worker holds once the solver has failed.
SolverFailure == [ok |-> FALSE]

ISqrt(n) == CHOOSE r \in 0..n : r * r <= n /\ (r + 1) * (r + 1) > n

\* pose.translation().norm()
Norm(t) == ISqrt(t[1] * t[1] + t[2] * t[2] + t[3] * t[3])

---------------------------------------------------------------------------
(* calc_tag_angles, statement by statement                                 *)

InFlight(w) == pc[w] \notin {"idle", "done"}

NoResult == [kind |-> "none"]
Raised(e) == [kind |-> "raised", exc |-> e]
\* TagAngleObservation(tag_id, corners, distance)
TagAngleObservation(t, cs, d) ==
    [kind |-> "returned", tag_id |-> t, corners |-> cs, distance |-> d]

\* config_store.local_config as each statement reads it.
UndistortConfig == config_store
BearingConfigFromDefault == Calibrations[1]
BearingConfig == config_store
SolveConfig == config_store

\* The array that `corners` names in worker w's call: its own.
CornersArrayShared(w) == 1
CornersArray(w) == w

\* Line 29: a fresh array of zeros.
NewCornersStale(old) == old
NewCorners(old) == ZeroCorners

\* Lines 32-33: corners[index] = (atan(vec[0]), atan(vec[1])); index 0-based.
StoreRowFirst(arr, i, vec) == [arr EXCEPT ![1] = AngleRow(vec)]
StoreRowSwapped(arr, i, vec) ==
    [arr EXCEPT ![i + 1] = <<Atan(vec[2]), Atan(vec[1])>>]
StoreRow(arr, i, vec) == [arr EXCEPT ![i + 1] = AngleRow(vec)]

\* Line 38: the test that takes hypothesis 0.
PoseZeroSelectedOnTie(p) == p.error_0 <= p.error_1
PoseZeroSelectedFlipped(p) == p.error_0 > p.error_1
PoseZeroSelected(p) == p.error_0 < p.error_1

\* Lines 38-41.
SelectDistance(p) ==
    IF PoseZeroSelected(p) THEN Norm(p.pose_0) ELSE Norm(p.pose_1)

\* Line 36: where control goes after the solver call; nothing in
\* calc_tag_angles catches what the solver raises.
AfterSolveSwallowed(outcome) == IF outcome.ok THEN "L38" ELSE "L44"
AfterSolve(outcome) == IF outcome.ok THEN "L38" ELSE "done"

\* Line 31: whether np.linalg.inv raises for the matrix it is given.
BearingRaisesNever(K) == FALSE
BearingRaises(K) == InvRaises(K)

\* Line 24: the call.
Call(w, o) ==
    /\ ~InFlight(w)
    /\ pc' = [pc EXCEPT ![w] = "L26"]
    /\ image_observation' = [image_observation EXCEPT ![w] = o]
    /\ corners_undistorted' = [corners_undistorted EXCEPT ![w] = <<>>]
    /\ index' = [index EXCEPT ![w] = 0]
    /\ pose_observation' = [pose_observation EXCEPT ![w] = NoPose]
    /\ distance' = [distance EXCEPT ![w] = 0]
    /\ result' = [result EXCEPT ![w] = NoResult]
    /\ used' = [used EXCEPT ![w] = {}]
    /\ UNCHANGED <<config_store, solver, corners>>

\* Lines 26 and 29.
Undistort(w) ==
    /\ pc[w] = "L26"
    /\ corners_undistorted' = [corners_undistorted EXCEPT
           ![w] = UndistortPoints(image_observation[w].corners, UndistortConfig)]
    /\ corners' = [corners EXCEPT ![CornersArray(w)] = NewCorners(@)]
    /\ index' = [index EXCEPT ![w] = 0]
    /\ used' = [used EXCEPT ![w] = @ \cup {UndistortConfig}]
    /\ pc' = [pc EXCEPT ![w] = "L30"]
    /\ UNCHANGED <<config_store, solver, image_observation, pose_observation,
                   distance, result>>

\* Lines 30-33, one pass of the loop.
CornerStep(w) ==
    /\ pc[w] = "L30"
    /\ index[w] < Len(corners_undistorted[w])
    /\ used' = [used EXCEPT ![w] = @ \cup {BearingConfig}]
    /\ LET K  == BearingConfig.camera_matrix
           pt == corners_undistorted[w][index[w] + 1]
       IN  IF BearingRaises(K)
           THEN /\ result' = [result EXCEPT ![w] = Raised("LinAlgError")]
                /\ pc' = [pc EXCEPT ![w] = "done"]
                /\ UNCHANGED <<corners, index>>
           ELSE IF index[w] >= NumRows
           THEN /\ result' = [result EXCEPT ![w] = Raised("IndexError")]
                /\ pc' = [pc EXCEPT ![w] = "done"]
                /\ UNCHANGED <<corners, index>>
           ELSE /\ corners' = [corners EXCEPT ![CornersArray(w)] =
                                   StoreRow(@, index[w], InvDot(K, pt))]
                /\ index' = [index EXCEPT ![w] = @ + 1]
                /\ UNCHANGED <<result, pc>>
    /\ UNCHANGED <<config_store, solver, image_observation,
                   corners_undistorted, pose_observation, distance>>

\* Line 30: the loop is exhausted.
LoopExit(w) ==
    /\ pc[w] = "L30"
    /\ index[w] = Len(corners_undistorted[w])
    /\ pc' = [pc EXCEPT ![w] = "L36"]
    /\ UNCHANGED <<config_store, solver, image_observation,
                   corners_undistorted, corners, index, pose_observation,
                   distance, result, used>>

\* Lines 36-37.
SolvePose(w) ==
    /\ pc[w] = "L36"
    /\ LET outcome == SolveFiducialPose(image_observation[w], SolveConfig)
       IN  /\ pose_observation' = [pose_observation EXCEPT ![w] = outcome]
           /\ pc' = [pc EXCEPT ![w] = AfterSolve(outcome)]
           /\ result' = [result EXCEPT ![w] =
                  IF AfterSolve(outcome) = "done"
                  THEN Raised("PoseSolveFailure") ELSE @]
    /\ distance' = [distance EXCEPT ![w] = 0]
    /\ used' = [used EXCEPT ![w] = @ \cup {SolveConfig}]
    /\ UNCHANGED <<config_store, solver, image_observation,
                   corners_undistorted, corners, index>>

\* Lines 38-41.
Select(w) ==
    /\ pc[w] = "L38"
    /\ distance' = [distance EXCEPT ![w] = SelectDistance(pose_observation[w])]
    /\ pc' = [pc EXCEPT ![w] = "L44"]
    /\ UNCHANGED <<config_store, solver, image_observation,
                   corners_undistorted, corners, index, pose_observation,
                   result, used>>

\* Line 44.
Return(w) ==
    /\ pc[w] = "L44"
    /\ result' = [result EXCEPT ![w] =
           TagAngleObservation(image_observation[w].tag_id,
                               corners[CornersArray(w)], distance[w])]
    /\ pc' = [pc EXCEPT ![w] = "done"]
    /\ UNCHANGED <<config_store, solver, image_observation,
                   corners_undistorted, corners, index, pose_observation,
                   distance, used>>

\* The configuration subsystem installs another calibration, between frames:
\* while no call is running.
UpdateCalibration(cal) ==
    /\ \A w \in Workers : ~InFlight(w)
    /\ cal # config_store
    /\ config_store' = cal
    /\ UNCHANGED <<solver, pc, image_observation, corners_undistorted,
                   corners, index, pose_observation, distance, result, used>>

---------------------------------------------------------------------------
(* Specifications                                                          *)

InitLocals ==
    /\ pc = [w \in Workers |-> "idle"]
    /\ image_observation =
           [w \in Workers |-> [tag_id |-> NoTagId, corners |-> <<>>]]
    /\ corners_undistorted = [w \in Workers |-> <<>>]
    /\ corners = [w \in Workers |-> ZeroCorners]
    /\ index = [w \in Workers |-> 0]
    /\ pose_observation = [w \in Workers |-> NoPose]
    /\ distance = [w \in Workers |-> 0]
    /\ result = [w \in Workers |-> NoResult]
    /\ used = [w \in Workers |-> {}]

\* One calling thread (worker 1), any observation, any calibration.
Init ==
    /\ config_store \in CalibrationSet
    /\ solver \in 0..(NumSolvers - 1)
    /\ InitLocals

Next ==
    \/ \E o \in Observations : Call(1, o)
    \/ Undistort(1)
    \/ CornerStep(1)
    \/ LoopExit(1)
    \/ SolvePose(1)
    \/ Select(1)
    \/ Return(1)
    \/ \E cal \in CalibrationSet : UpdateCalibration(cal)

Spec == Init /\ [][Next]_vars

\* The tags of a frame computed by all workers at once, interleaved
\* statement by statement.
FrameObservations ==
    {o \in Observations :
        /\ o.corners[1] = QuadCorners[1]
        /\ \/ o.tag_id = "1" /\ Len(o.corners) \in {NumRows - 1, NumRows}
           \/ o.tag_id = "2" /\ Len(o.corners) = NumRows}
FrameCalibrations == {Calibrations[1], Calibrations[2]}
FrameSolvers == {2}

InitFrame ==
    /\ config_store \in FrameCalibrations
    /\ solver \in FrameSolvers
    /\ InitLocals

NextFrame ==
    \/ \E w \in Workers : \E o \in FrameObservations : Call(w, o)
    \/ \E w \in Workers : Undistort(w)
    \/ \E w \in Workers : CornerStep(w)
    \/ \E w \in Workers : LoopExit(w)
    \/ \E w \in Workers : SolvePose(w)
    \/ \E w \in Workers : Select(w)
    \/ \E w \in Workers : Return(w)
    \/ \E cal \in FrameCalibrations : UpdateCalibration(cal)

SpecFrame == InitFrame /\ [][NextFrame]_vars

---------------------------------------------------------------------------
(* The whole call as one function of its inputs, for a call that returns   *)

CalcTagAnglesResult(o, cal) ==
    LET K    == cal.camera_matrix
        D    == cal.distortion_coefficients
        rows == [r \in 1..NumRows |->
                    IF r <= Len(o.corners)
                    THEN AngleRow(InvDot(K, UndistortPoint(o.corners[r], K, D)))
                    ELSE <<ZeroAngle, ZeroAngle>>]
    IN  TagAngleObservation(o.tag_id, rows,
                            SelectDistance(SolveFiducialPose(o, cal)))

---------------------------------------------------------------------------
(* Properties                                                              *)

Finished(w) == pc[w] = "done"
Returned(w) == pc[w] = "done" /\ result[w].kind = "returned"
Tie(w) ==
    /\ pose_observation[w].ok
    /\ pose_observation[w].error_0 = pose_observation[w].error_1

\* Exact fractions.
RAdd(a, b) == Rat(a[1] * b[2] + b[1] * a[2], a[2] * b[2])
RScale(k, a) == Rat(k * a[1], a[2])

\* C1 as stated: with equal fit errors the returned distance is the
\* translation norm of hypothesis 0.
C1_TieTakesPoseZero ==
    \A w \in Workers :
        Returned(w) /\ Tie(w)
            => result[w].distance = Norm(pose_observation[w].pose_0)

\* C1 amended: with equal fit errors the returned distance is the
\* translation norm of hypothesis 1 (the else branch of line 38).
C1_TieTakesPoseOne ==
    \A w \in Workers :
        Returned(w) /\ Tie(w)
            => result[w].distance = Norm(pose_observation[w].pose_1)

C1_Witness ==
    \E w \in Workers :
        /\ Returned(w) /\ Tie(w)
        /\ Norm(pose_observation[w].pose_0) # Norm(pose_observation[w].pose_1)

\* C2: a strictly smaller error_0 gives the norm of pose_0, a strictly
\* smaller error_1 the norm of pose_1; norms 2.0 / 2.5 with errors
\* 0.01 / 0.02 give distance 2.0.
C2_MonotonicSelection ==
    \A w \in Workers :
        Returned(w) /\ pose_observation[w].ok =>
            LET p == pose_observation[w]
            IN  /\ p.error_0 < p.error_1 => result[w].distance = Norm(p.pose_0)
                /\ p.error_1 < p.error_0 => result[w].distance = Norm(p.pose_1)
                /\ (/\ Norm(p.pose_0) = 20 /\ p.error_0 = 1
                    /\ Norm(p.pose_1) = 25 /\ p.error_1 = 2)
                       => result[w].distance = 20

C2_Witness ==
    \E w \in Workers :
        /\ Returned(w)
        /\ pose_observation[w] = SolverOutcomes[1]
        /\ result[w].distance = 20

\* C3: a failed pose solve ends the call with the solver's failure and no
\* TagAngleObservation; every returned observation carries the norm of one
\* of the two hypotheses of a successful solve.
C3_SolveFailurePropagates ==
    \A w \in Workers :
        /\ pose_observation[w] = SolverFailure
               => Finished(w) /\ result[w] = Raised("PoseSolveFailure")
        /\ Returned(w) =>
               /\ pose_observation[w].ok
               /\ result[w].distance \in {Norm(pose_observation[w].pose_0),
                                          Norm(pose_observation[w].pose_1)}

C3_Witness ==
    \E w \in Workers :
        /\ pose_observation[w] = SolverFailure
        /\ Len(image_observation[w].corners) = NumRows
        /\ corners[CornersArray(w)] # ZeroCorners
        /\ result[w] = Raised("PoseSolveFailure")

\* C4 as stated: an observation without exactly four corners, or without a
\* tag id, is rejected with InvalidObservation before anything is computed.
InvalidObservation(o) == Len(o.corners) # NumRows \/ o.tag_id = NoTagId

C4_InvalidObservationRejected ==
    \A w \in Workers :
        pc[w] # "idle" /\ InvalidObservation(image_observation[w]) =>
            /\ corners_undistorted[w] = <<>>
            /\ used[w] = {}
            /\ Finished(w) => result[w] = Raised("InvalidObservation")

\* C5 as stated: a singular camera matrix ends the call with
\* InvalidCalibration.
SingularUsed(w) == \E cal \in used[w] : Det(cal.camera_matrix) = 0

C7_CornerOrderPreserved ==
    \A w \in Workers :
        LET o == image_observation[w]
        IN  Returned(w) /\ ~InvalidObservation(o) =>
                /\ result[w].tag_id = o.tag_id
                /\ \E cal \in used[w] :
                       \A i \in 1..NumRows :
                           result[w].corners[i] =
                               AngleRow(InvDot(cal.camera_matrix,
                                   UndistortPoint(o.corners[i],
                                       cal.camera_matrix,
                                       cal.distortion_coefficients)))

C7_Witness ==
    \E w \in Workers :
        /\ Returned(w)
        /\ image_observation[w] = [tag_id |-> "2", corners |-> QuadCorners]
        /\ used[w] = {Calibrations[2]}
        /\ \A i, j \in 1..NumRows :
               i # j => result[w].corners[i] # result[w].corners[j]

\* C8: two finished calls on the same observation under the same
\* calibration have the same outcome.
C8_Deterministic ==
    \A w \in Workers : \A v \in Workers :
        /\ Finished(w) /\ Finished(v)
        /\ image_observation[w] = image_observation[v]
        /\ used[w] = used[v]
        => result[w] = result[v]

C8_Witness ==
    \E w \in Workers : \E v \in Workers :
        /\ w # v
        /\ Returned(w) /\ Returned(v)
        /\ image_observation[w] = image_observation[v]
        /\ Len(image_observation[w].corners) < NumRows
        /\ used[w] = used[v]
        /\ result[w] = result[v]

\* C9: a running call leaves its observation and the calibration alone, a
\* step of one worker changes nothing of another worker, and whatever the
\* interleaving every returned value is the value of the call run alone.
LocalsOf(w) ==
    <<pc[w], image_observation[w], corners_undistorted[w], corners[w],
      index[w], pose_observation[w], distance[w], result[w], used[w]>>

C9_Independent ==
    [][\A w \in Workers :
          /\ InFlight(w) =>
                 /\ image_observation'[w] = image_observation[w]
                 /\ config_store' = config_store
          /\ pc'[w] # pc[w] =>
                 \A v \in Workers \ {w} : LocalsOf(v)' = LocalsOf(v)
          /\ (pc[w] = "L44" /\ pc'[w] = "done") =>
                 \E cal \in used'[w] :
                     result'[w] = CalcTagAnglesResult(image_observation'[w], cal)
      ]_vars

C9_Witness ==
    \E w \in Workers : \E v \in Workers :
        /\ pc[w] = "L44"
        /\ Returned(v)
        /\ image_observation[w].tag_id # image_observation[v].tag_id
        /\ corners[CornersArray(w)] # corners[CornersArray(v)]

\* C10: each returned row is (atan(x), atan(y)) where K.(x, y, z) is the
\* homogeneous undistorted corner (u, v, 1); the example square under the
\* identity matrix and zero distortion gives the atan(+-0.1) pairs.
IsInverseImage(K, x, y, pt) ==
    LET r3 == CHOOSE r \in 1..3 : K[r][3] # 0
        \* z from row r3 of K.(x, y, z) = (u, v, 1)
        z  == LET rest == RAdd(Rat(Homogeneous(pt)[r3], Scale),
                               RAdd(RScale(0 - K[r3][1], x),
                                    RScale(0 - K[r3][2], y)))
              IN  Rat(rest[1], rest[2] * K[r3][3])
    IN  \A r \in 1..3 :
            RAdd(RScale(K[r][1], x), RAdd(RScale(K[r][2], y), RScale(K[r][3], z)))
                = Rat(Homogeneous(pt)[r], Scale)

ExampleAngles ==
    LET m == Atan(<<0 - 1, 10>>)
        p == Atan(<<1, 10>>)
    IN  << <<m, m>>, <<p, m>>, <<p, p>>, <<m, p>> >>

C10_BearingFormula ==
    \A w \in Workers :
        Returned(w) =>
            /\ \E cal \in used[w] :
                   \A i \in 1..Len(corners_undistorted[w]) :
                       IsInverseImage(cal.camera_matrix,
                                      result[w].corners[i][1].atan,
                                      result[w].corners[i][2].atan,
                                      corners_undistorted[w][i])
            /\ (/\ image_observation[w].corners = ExampleCorners
                /\ used[w] = {Calibrations[1]})
                   => result[w].corners = ExampleAngles

C10_Witness ==
    \E w \in Workers :
        /\ Returned(w)
        /\ image_observation[w].corners = ExampleCorners
        /\ used[w] = {Calibrations[1]}
        /\ result[w].corners = ExampleAngles

=============================================================================
